---- MODULE Spec2Model ----
(***************************************************************************)
(* Model of the aggregation pipeline of the Spider-Man villain timeline:   *)
(* src/utils/dataProcessor.ts (normalizeVillainName, generateVillainId,    *)
(* processVillainData, generateTimeline, generateStats).                   *)
(*                                                                         *)
(* A JavaScript string is a sequence of one-character strings, so that the *)
(* regular-expression steps of the source are computed character by        *)
(* character.  A Map is a sequence of [key, value] records in insertion    *)
(* order.  A number that is a quotient of two integers is a [num, den]     *)
(* record.                                                                 *)
(***************************************************************************)
EXTENDS Integers, Sequences, FiniteSets, TLC

VARIABLES
    rawData,     \* the argument of the running processVillainData call
    pc,          \* position of the call: validate, loop, sort, return, done, thrown
    i,           \* index of the issue the outer loop is at
    j,           \* index of the raw name the inner loop is at
    villainMap,  \* the Map<string, ProcessedVillain> built by the call
    result,      \* the ProcessedData returned (NoResult until the call returns)
    attrib,      \* history: for each raw name handled, the registry slot it went to
    log,         \* history: [input, result] of every call that has returned
    fn,          \* the string function called last: none, normalizeVillainName, generateVillainId
    arg,         \* its argument
    ret,         \* its return value
    html,        \* the page handed to parseAntagonistsFromHtml
    ppc,         \* position of the parse: idle, items, returned, caught
    visit,       \* number of the list item the parse is at
    antagonists, \* the names the parse has pushed so far
    parsed,      \* the list parseAntagonistsFromHtml returned
    startIssue,  \* first argument of scrapeAmazingSpiderManVol1
    endIssue,    \* second argument of scrapeAmazingSpiderManVol1
    spc,         \* position of the scrape: idle, call, fetch, delay, done, rejected
    cur,         \* the issue number the scrape loop is at
    scrapedIssues, \* the IssueData records the scrape has pushed (issues)
    requestCount,\* MarvelScraper.requestCount
    events,      \* history: the requests and delays of the scrape, in order
    data,        \* the ProcessedData handed to generateD3Config
    config       \* the D3Config it returned (NoConfig until then)

aggVars == <<rawData, pc, i, j, villainMap, result, attrib, log>>

strVars == <<fn, arg, ret>>

parseVars == <<html, ppc, visit, antagonists, parsed>>

scrapeVars ==
    <<startIssue, endIssue, spc, cur, scrapedIssues, requestCount, events>>

d3Vars == <<data, config>>

vars == <<aggVars, strVars, parseVars, scrapeVars, d3Vars>>

\* no string function has been called
StrIdle == fn = "none" /\ arg = <<>> /\ ret = <<>>

\* no page is being parsed
ParseIdle ==
    /\ html = [throwsAt |-> 0, blocks |-> <<>>]
    /\ ppc = "idle"
    /\ visit = 0
    /\ antagonists = <<>>
    /\ parsed = <<>>

NoConfig == [generated |-> FALSE]

\* generateD3Config has not been called
D3Idle == data = [villains |-> <<>>, timeline |-> <<>>] /\ config = NoConfig

\* a MarvelScraper has been constructed and no scrape is under way
ScrapeIdle ==
    /\ startIssue = 0
    /\ endIssue = 0
    /\ spc = "idle"
    /\ cur = 0
    /\ scrapedIssues = <<>>
    /\ requestCount = 0
    /\ events = <<>>

----------------------------------------------------------------------------
(* Bounds of the model *)

MaxRecords == 2
MaxIssue == 3
MaxNames == 2
MaxCalls == 3

----------------------------------------------------------------------------
(* Characters and strings *)

UpperLetters ==
    <<"A","B","C","D","E","F","G","H","I","J","K","L","M",
      "N","O","P","Q","R","S","T","U","V","W","X","Y","Z">>

LowerLetters ==
    <<"a","b","c","d","e","f","g","h","i","j","k","l","m",
      "n","o","p","q","r","s","t","u","v","w","x","y","z">>

Digits == {"0","1","2","3","4","5","6","7","8","9"}

Range(s) == { s[k] : k \in DOMAIN s }

\* the class \s of the regular expressions, which is also what trim() removes
IsSpace(c) == c \in {" ", "\t", "\n"}

\* the class [,;:\.]
IsTrailingPunct(c) == c \in {",", ";", ":", "."}

\* the class [a-z0-9]
IsLowerAlnum(c) == c \in Range(LowerLetters) \cup Digits

ToLowerChar(c) ==
    IF c \in Range(UpperLetters)
    THEN LowerLetters[CHOOSE k \in DOMAIN UpperLetters : UpperLetters[k] = c]
    ELSE c

toLowerCase(s) == [k \in DOMAIN s |-> ToLowerChar(s[k])]

RECURSIVE TrimStart(_)
TrimStart(s) ==
    IF s # <<>> /\ IsSpace(Head(s)) THEN TrimStart(Tail(s)) ELSE s

RECURSIVE TrimEnd(_)
TrimEnd(s) ==
    IF s # <<>> /\ IsSpace(s[Len(s)])
    THEN TrimEnd(SubSeq(s, 1, Len(s) - 1))
    ELSE s

trim(s) == TrimEnd(TrimStart(s))

\* index of the first c in s, 0 when there is none
FirstIndexOf(s, c) ==
    IF c \in Range(s)
    THEN CHOOSE k \in DOMAIN s : s[k] = c /\ \A m \in 1..(k - 1) : s[m] # c
    ELSE 0

\* replace(/\([^)]*\)/g, ''): each "(" that has a ")" after it is deleted with
\* everything up to the first such ")"
RECURSIVE RemoveParenthesized(_)
RemoveParenthesized(s) ==
    IF s = <<>> THEN <<>>
    ELSE IF Head(s) = "(" /\ FirstIndexOf(s, ")") # 0
         THEN RemoveParenthesized(SubSeq(s, FirstIndexOf(s, ")") + 1, Len(s)))
         ELSE <<Head(s)>> \o RemoveParenthesized(Tail(s))

\* replace(/[,;:\.]+$/, ''): the maximal run of punctuation at the end is deleted
RECURSIVE RemoveTrailingPunct(_)
RemoveTrailingPunct(s) ==
    IF s # <<>> /\ IsTrailingPunct(s[Len(s)])
    THEN RemoveTrailingPunct(SubSeq(s, 1, Len(s) - 1))
    ELSE s

\* replace(/\s+/g, ' '): every maximal run of white space becomes one space
RECURSIVE CollapseSpaces(_)
CollapseSpaces(s) ==
    IF s = <<>> THEN <<>>
    ELSE IF IsSpace(Head(s))
         THEN <<" ">> \o CollapseSpaces(TrimStart(s))
         ELSE <<Head(s)>> \o CollapseSpaces(Tail(s))

\* the trailing punctuation stripped before the parenthesized spans
normalizePunctFirst(name) ==
    LET a == trim(name)
        b == trim(RemoveTrailingPunct(a))
        c == trim(RemoveParenthesized(b))
    IN  CollapseSpaces(c)

normalizeVillainName(name) ==
    LET a == trim(name)
        b == trim(RemoveParenthesized(a))
        c == trim(RemoveTrailingPunct(b))
    IN  CollapseSpaces(c)

\* replace(/[^a-z0-9]+/g, '-')
RECURSIVE DropNonAlnum(_)
DropNonAlnum(s) ==
    IF s # <<>> /\ ~IsLowerAlnum(Head(s)) THEN DropNonAlnum(Tail(s)) ELSE s

RECURSIVE DashRuns(_)
DashRuns(s) ==
    IF s = <<>> THEN <<>>
    ELSE IF ~IsLowerAlnum(Head(s))
         THEN <<"-">> \o DashRuns(DropNonAlnum(s))
         ELSE <<Head(s)>> \o DashRuns(Tail(s))

\* without the second replace
KeepEdgeDashes(s) == s

\* replace(/^-|-$/g, ''): one "-" at the start and one at the end are deleted
StripEdgeDashes(s) ==
    LET a == IF s # <<>> /\ Head(s) = "-" THEN Tail(s) ELSE s
    IN  IF a # <<>> /\ a[Len(a)] = "-" THEN SubSeq(a, 1, Len(a) - 1) ELSE a

generateVillainId(name) == StripEdgeDashes(DashRuns(toLowerCase(name)))

----------------------------------------------------------------------------
(* Arrays and Maps *)

\* Array.prototype.includes
includes(arr, x) == \E k \in DOMAIN arr : arr[k] = x

\* Map.prototype.has / get / set / values on a Map kept in insertion order
MapHas(m, key) == \E n \in DOMAIN m : m[n].key = key

MapIndex(m, key) == CHOOSE n \in DOMAIN m : m[n].key = key

MapGet(m, key) == m[MapIndex(m, key)].value

MapSet(m, key, value) ==
    IF MapHas(m, key)
    THEN [m EXCEPT ![MapIndex(m, key)].value = value]
    ELSE Append(m, [key |-> key, value |-> value])

MapValues(m) == [n \in DOMAIN m |-> m[n].value]

\* an IssueData whose issueNumber field is absent reads as undefined
Undefined == 0

\* Array.prototype.sort((a, b) => a - b): ascending and stable; undefined
\* elements are not handed to the comparator and end up last
ComesBefore(a, b) == a # Undefined /\ (b = Undefined \/ a < b)

RECURSIVE InsertSorted(_, _)
InsertSorted(s, x) ==
    IF s = <<>> THEN <<x>>
    ELSE IF ComesBefore(x, Head(s))
         THEN <<x>> \o s
         ELSE <<Head(s)>> \o InsertSorted(Tail(s), x)

RECURSIVE SortAscending(_)
SortAscending(s) ==
    IF s = <<>> THEN <<>>
    ELSE InsertSorted(SortAscending(SubSeq(s, 1, Len(s) - 1)), s[Len(s)])

----------------------------------------------------------------------------
(* Inputs *)

SeqsUpTo(S, n) == UNION { [1..m -> S] : m \in 0..n }

\* raw antagonist strings as the scraper may hand them over:
\*   "Ox"   " Ox (x),"   "ox"   " "   "(x)"
RawNames ==
    { <<"O","x">>,
      <<" ","O","x"," ","(","x",")",",">>,
      <<"o","x">>,
      <<" ">>,
      <<"(","x",")">> }

\* the IssueData records with an issue number among nums; the record of a
\* failed fetch has the sentinel title and no antagonists
IssueRecords(nums) ==
    { [issueNumber |-> n, title |-> "scraped", antagonists |-> a] :
          n \in nums, a \in SeqsUpTo(RawNames, MaxNames) }
    \cup
    { [issueNumber |-> n, title |-> "failed", antagonists |-> <<>>] : n \in nums }

SeriesName == <<"A","S","M">>

RawVillainData(issues) ==
    [isNull |-> FALSE, issuesIsArray |-> TRUE, series |-> SeriesName, issues |-> issues]

\* rawData that is null, and rawData whose issues field is no array
NullData ==
    [isNull |-> TRUE, issuesIsArray |-> FALSE, series |-> <<>>, issues |-> <<>>]

NoArrayData ==
    [isNull |-> FALSE, issuesIsArray |-> FALSE, series |-> SeriesName, issues |-> <<>>]

\* inputs of the declared type RawVillainData, and the two that fail validation
TypedInputs ==
    { RawVillainData(s) : s \in SeqsUpTo(IssueRecords(1..MaxIssue), MaxRecords) }

\* inputs in which a record may lack its issueNumber
UntypedInputs ==
    { RawVillainData(s) :
          s \in SeqsUpTo(IssueRecords((1..MaxIssue) \cup {Undefined}), MaxRecords) }

NoResult == [returned |-> FALSE]

----------------------------------------------------------------------------
(* processVillainData, generateTimeline, generateStats *)

\* const normalized = normalizeVillainName(rawName): the key of the registry
NormalizedTrimOnly(rawName) == trim(rawName)

Normalized(rawName) == normalizeVillainName(rawName)

\* new Map<string, ProcessedVillain>()
ReusedVillainMap == villainMap

NewVillainMap == <<>>

\* the entry made for a name seen for the first time
NewVillain(normalized, issueNumber) ==
    [id |-> generateVillainId(normalized),
     names |-> <<normalized>>,
     firstAppearance |-> issueNumber,
     appearances |-> <<issueNumber>>,
     frequency |-> 1]

\* a further mention of a known villain: the issue is pushed and the frequency
\* incremented only when the issue is not yet among the appearances
MentionAlwaysCounted(villain, issueNumber) ==
    IF ~includes(villain.appearances, issueNumber)
    THEN [villain EXCEPT !.appearances = Append(@, issueNumber),
                         !.frequency = @ + 1]
    ELSE [villain EXCEPT !.frequency = @ + 1]

Mention(villain, issueNumber) ==
    IF ~includes(villain.appearances, issueNumber)
    THEN [villain EXCEPT !.appearances = Append(@, issueNumber),
                         !.frequency = @ + 1]
    ELSE villain

\* villain.appearances.sort((a, b) => a - b) for every villain of the Map
AppearancesUnsorted(m) == m

SortAllAppearances(m) ==
    [n \in DOMAIN m |->
        [m[n] EXCEPT !.value.appearances = SortAscending(@)]]

generateTimelineFirstOnly(issues, m) ==
    [k \in DOMAIN issues |->
        LET villainsInIssue ==
                SelectSeq(MapValues(m),
                          LAMBDA v : v.firstAppearance = issues[k].issueNumber)
        IN  [issue |-> issues[k].issueNumber,
             villains |-> villainsInIssue,
             villainCount |-> Len(villainsInIssue)]]

generateTimelineSkippingEmpty(issues, m) ==
    LET kept == SelectSeq(issues, LAMBDA r : r.antagonists # <<>>)
    IN  [k \in DOMAIN kept |->
            LET villainsInIssue ==
                    SelectSeq(MapValues(m),
                              LAMBDA v : includes(v.appearances, kept[k].issueNumber))
            IN  [issue |-> kept[k].issueNumber,
                 villains |-> villainsInIssue,
                 villainCount |-> Len(villainsInIssue)]]

generateTimeline(issues, m) ==
    [k \in DOMAIN issues |->
        LET villainsInIssue ==
                SelectSeq(MapValues(m),
                          LAMBDA v : includes(v.appearances, issues[k].issueNumber))
        IN  [issue |-> issues[k].issueNumber,
             villains |-> villainsInIssue,
             villainCount |-> Len(villainsInIssue)]]

\* the placeholder generateStats uses for an empty registry
EmptyVillain ==
    [id |-> <<>>, names |-> <<>>, frequency |-> 0, firstAppearance |-> 0,
     appearances |-> <<>>]

\* villainArray.reduce((prev, current) =>
\*     (current.frequency > prev.frequency) ? current : prev)
RECURSIVE ReduceMostFrequent(_, _, _)
ReduceMostFrequent(arr, k, prev) ==
    IF k > Len(arr) THEN prev
    ELSE ReduceMostFrequent(arr, k + 1,
             IF arr[k].frequency > prev.frequency THEN arr[k] ELSE prev)

mostFrequent(villainArray) ==
    IF Len(villainArray) > 0
    THEN ReduceMostFrequent(villainArray, 2, villainArray[1])
    ELSE EmptyVillain

\* villainArray.reduce((sum, v) => sum + v.frequency, 0)
RECURSIVE SumFrequency(_)
SumFrequency(arr) ==
    IF arr = <<>> THEN 0 ELSE Head(arr).frequency + SumFrequency(Tail(arr))

\* the quotient sum / villainArray.length, and 0 for an empty registry
averageFrequencyPerIssue(villainArray, originalIssues) ==
    IF Len(villainArray) > 0 /\ Len(originalIssues) > 0
    THEN [num |-> SumFrequency(villainArray), den |-> Len(originalIssues)]
    ELSE [num |-> 0, den |-> 1]

averageFrequency(villainArray, originalIssues) ==
    IF Len(villainArray) > 0
    THEN [num |-> SumFrequency(villainArray), den |-> Len(villainArray)]
    ELSE [num |-> 0, den |-> 1]

\* the Map from an issue to the names of the villains that first appear in it
RECURSIVE BuildFirstAppearances(_, _)
BuildFirstAppearances(arr, acc) ==
    IF arr = <<>> THEN acc
    ELSE LET issue == Head(arr).firstAppearance
             base  == IF MapHas(acc, issue) THEN acc ELSE MapSet(acc, issue, <<>>)
         IN  BuildFirstAppearances(Tail(arr),
                 MapSet(base, issue, Append(MapGet(base, issue), Head(arr).names[1])))

generateStats(m, originalIssues) ==
    LET villainArray == MapValues(m)
    IN  [totalVillains |-> Len(villainArray),
         mostFrequent |-> mostFrequent(villainArray),
         averageFrequency |-> averageFrequency(villainArray, originalIssues),
         firstAppearances |-> BuildFirstAppearances(villainArray, <<>>)]

----------------------------------------------------------------------------
(* The call, step by step *)

InLoop == pc = "loop" /\ i <= Len(rawData.issues)

AtName == InLoop /\ j <= Len(rawData.issues[i].antagonists)

issue == rawData.issues[i]

rawName == issue.antagonists[j]

\* the history of which registry slot a handled raw name went to (0: skipped)
Attributed(slot) == attrib \cup {[rec |-> i, pos |-> j, slot |-> slot]}

\* if (!rawData || !Array.isArray(rawData.issues)) throw new Error(...)
Throw ==
    /\ pc = "validate"
    /\ rawData.isNull \/ ~rawData.issuesIsArray
    /\ pc' = "thrown"
    /\ UNCHANGED <<rawData, i, j, villainMap, result, attrib, log>>
    /\ UNCHANGED <<strVars, parseVars, scrapeVars, d3Vars>>

\* validation passed: the registry is created and the loops start
Begin ==
    /\ pc = "validate"
    /\ ~(rawData.isNull \/ ~rawData.issuesIsArray)
    /\ villainMap' = NewVillainMap
    /\ i' = 1
    /\ j' = 1
    /\ pc' = "loop"
    /\ UNCHANGED <<rawData, result, attrib, log>>
    /\ UNCHANGED <<strVars, parseVars, scrapeVars, d3Vars>>

\* if (!rawName || rawName.trim().length === 0) continue
SkipEmptyName ==
    /\ AtName
    /\ Len(rawName) = 0 \/ Len(trim(rawName)) = 0
    /\ j' = j + 1
    /\ attrib' = Attributed(0)
    /\ UNCHANGED <<rawData, pc, i, villainMap, result, log>>
    /\ UNCHANGED <<strVars, parseVars, scrapeVars, d3Vars>>

\* if (normalized.length === 0) continue
SkipEmptyNormalized ==
    /\ AtName
    /\ ~(Len(rawName) = 0 \/ Len(trim(rawName)) = 0)
    /\ Len(Normalized(rawName)) = 0
    /\ j' = j + 1
    /\ attrib' = Attributed(0)
    /\ UNCHANGED <<rawData, pc, i, villainMap, result, log>>
    /\ UNCHANGED <<strVars, parseVars, scrapeVars, d3Vars>>

\* if (!villainMap.has(normalized)) villainMap.set(normalized, {...})
AddVillain ==
    /\ AtName
    /\ ~(Len(rawName) = 0 \/ Len(trim(rawName)) = 0)
    /\ Len(Normalized(rawName)) # 0
    /\ ~MapHas(villainMap, Normalized(rawName))
    /\ villainMap' = MapSet(villainMap, Normalized(rawName),
                            NewVillain(Normalized(rawName), issue.issueNumber))
    /\ j' = j + 1
    /\ attrib' = Attributed(MapIndex(villainMap', Normalized(rawName)))
    /\ UNCHANGED <<rawData, pc, i, result, log>>
    /\ UNCHANGED <<strVars, parseVars, scrapeVars, d3Vars>>

\* else: the existing villain is updated in place
UpdateVillain ==
    /\ AtName
    /\ ~(Len(rawName) = 0 \/ Len(trim(rawName)) = 0)
    /\ Len(Normalized(rawName)) # 0
    /\ MapHas(villainMap, Normalized(rawName))
    /\ villainMap' = MapSet(villainMap, Normalized(rawName),
                            Mention(MapGet(villainMap, Normalized(rawName)),
                                    issue.issueNumber))
    /\ j' = j + 1
    /\ attrib' = Attributed(MapIndex(villainMap, Normalized(rawName)))
    /\ UNCHANGED <<rawData, pc, i, result, log>>
    /\ UNCHANGED <<strVars, parseVars, scrapeVars, d3Vars>>

\* the inner loop is through: on to the next issue
NextIssue ==
    /\ InLoop
    /\ j > Len(rawData.issues[i].antagonists)
    /\ i' = i + 1
    /\ j' = 1
    /\ UNCHANGED <<rawData, pc, villainMap, result, attrib, log>>
    /\ UNCHANGED <<strVars, parseVars, scrapeVars, d3Vars>>

\* the outer loop is through
EndLoop ==
    /\ pc = "loop"
    /\ i > Len(rawData.issues)
    /\ pc' = "sort"
    /\ UNCHANGED <<rawData, i, j, villainMap, result, attrib, log>>
    /\ UNCHANGED <<strVars, parseVars, scrapeVars, d3Vars>>

\* for (const villain of villainMap.values()) villain.appearances.sort(...)
SortAppearances ==
    /\ pc = "sort"
    /\ villainMap' = SortAllAppearances(villainMap)
    /\ pc' = "return"
    /\ UNCHANGED <<rawData, i, j, result, attrib, log>>
    /\ UNCHANGED <<strVars, parseVars, scrapeVars, d3Vars>>

\* the timeline and the statistics are generated and the result is returned
\* (processedAt, the time of the call, is left out)
Return ==
    /\ pc = "return"
    /\ result' = [returned |-> TRUE,
                  series |-> rawData.series,
                  villains |-> MapValues(villainMap),
                  timeline |-> generateTimeline(rawData.issues, villainMap),
                  stats |-> generateStats(villainMap, rawData.issues)]
    /\ log' = Append(log, [input |-> rawData, result |-> result'])
    /\ pc' = "done"
    /\ UNCHANGED <<rawData, i, j, villainMap, attrib>>
    /\ UNCHANGED <<strVars, parseVars, scrapeVars, d3Vars>>

\* a further call of processVillainData by the same caller
OtherInput ==
    RawVillainData(<<[issueNumber |-> 1, title |-> "scraped",
                      antagonists |-> << <<"V">> >>]>>)

CallAgain ==
    /\ pc = "done"
    /\ Len(log) < MaxCalls
    /\ \E input \in {log[1].input, OtherInput} : rawData' = input
    /\ pc' = "validate"
    /\ i' = 0
    /\ j' = 0
    /\ result' = NoResult
    /\ attrib' = {}
    /\ UNCHANGED <<villainMap, log>>
    /\ UNCHANGED <<strVars, parseVars, scrapeVars, d3Vars>>

InitWith(inputs) ==
    /\ rawData \in inputs
    /\ pc = "validate"
    /\ i = 0
    /\ j = 0
    /\ villainMap = <<>>
    /\ result = NoResult
    /\ attrib = {}
    /\ log = <<>>
    /\ StrIdle
    /\ ParseIdle
    /\ ScrapeIdle
    /\ D3Idle

Init == InitWith(TypedInputs \cup {NullData, NoArrayData})

InitUntyped == InitWith(UntypedInputs \cup {NullData, NoArrayData})

Next ==
    \/ Throw
    \/ Begin
    \/ SkipEmptyName
    \/ SkipEmptyNormalized
    \/ AddVillain
    \/ UpdateVillain
    \/ NextIssue
    \/ EndLoop
    \/ SortAppearances
    \/ Return

NextCalls == Next \/ CallAgain

\* one call on an input of the declared type (or one that fails validation)
Spec == Init /\ [][Next]_vars

\* one call on an input whose records may lack the issue number
SpecUntyped == InitUntyped /\ [][Next]_vars

\* up to MaxCalls calls in a row
SpecCalls == Init /\ [][NextCalls]_vars

----------------------------------------------------------------------------
(* Vocabulary of the properties *)

Returned == pc = "done"

Issues == rawData.issues

Villains == result.villains

Timeline == result.timeline

Stats == result.stats

\* the raw string a history entry is about
RawOf(a) == Issues[a.rec].antagonists[a.pos]

Occurrences ==
    UNION { { <<r, p>> : p \in DOMAIN Issues[r].antagonists } : r \in DOMAIN Issues }

StrictlyAscending(s) == \A k \in 1..(Len(s) - 1) : s[k] < s[k + 1]

NoDuplicates(s) == \A k, m \in DOMAIN s : s[k] = s[m] => k = m

MinOf(s) == CHOOSE x \in Range(s) : \A y \in Range(s) : x <= y

AscendingInput ==
    \A k \in 1..(Len(Issues) - 1) : Issues[k].issueNumber <= Issues[k + 1].issueNumber

----------------------------------------------------------------------------
(* C1 *)

\* C1: the registry has exactly one entry per distinct non-empty normalized
\* name of the input: every raw name is handled once, it is skipped exactly
\* when it normalizes to the empty string, two names that are not skipped go
\* to the same entry if and only if they normalize to the same string, the
\* entry carries that string as its name, and there is no other entry.
C1_OneEntryPerNormalizedName ==
    Returned =>
        /\ { <<a.rec, a.pos>> : a \in attrib } = Occurrences
        /\ Cardinality(attrib) = Cardinality(Occurrences)
        /\ \A a \in attrib :
              /\ a.slot \in 0..Len(Villains)
              /\ (a.slot = 0) <=> (normalizeVillainName(RawOf(a)) = <<>>)
              /\ a.slot # 0 =>
                     Villains[a.slot].names = <<normalizeVillainName(RawOf(a))>>
        /\ \A a, b \in attrib :
              (a.slot # 0 /\ b.slot # 0) =>
                  ((a.slot = b.slot) <=>
                   (normalizeVillainName(RawOf(a)) = normalizeVillainName(RawOf(b))))
        /\ \A n \in DOMAIN Villains : \E a \in attrib : a.slot = n

\* two different raw strings of different records share an entry, a third
\* name has an entry of its own
C1_Witness ==
    /\ Returned
    /\ Len(Villains) = 2
    /\ \E a, b \in attrib :
          /\ a.rec # b.rec
          /\ RawOf(a) # RawOf(b)
          /\ a.slot = b.slot
          /\ a.slot # 0

----------------------------------------------------------------------------
(* C2 *)

\* C2: in every state of the call, and in the result, the frequency of a
\* villain is the number of elements of its appearances list.
C2_FrequencyIsAppearanceCount ==
    /\ \A n \in DOMAIN villainMap :
          villainMap[n].value.frequency = Len(villainMap[n].value.appearances)
    /\ Returned =>
          \A n \in DOMAIN Villains :
              Villains[n].frequency = Len(Villains[n].appearances)

\* in the middle of the loop, a villain of frequency 2 has been mentioned a
\* third time, in a record that had already mentioned it
C2_Witness ==
    /\ pc = "loop"
    /\ \E a, b, c \in attrib :
          /\ a.slot # 0 /\ a.slot = b.slot /\ b.slot = c.slot
          /\ a.rec # b.rec
          /\ b.rec = c.rec /\ b.pos # c.pos
          /\ villainMap[a.slot].value.frequency = 2

----------------------------------------------------------------------------
(* C3 *)

\* C3: in the result every appearances list is strictly ascending, whatever
\* the order of the records; and at every point of the loop a villain has at
\* most one appearance per record begun and no issue twice.
C3_AppearancesStrictlyAscending ==
    /\ pc \in {"loop", "sort", "return", "done"} =>
          \A n \in DOMAIN villainMap :
              /\ NoDuplicates(villainMap[n].value.appearances)
              /\ Len(villainMap[n].value.appearances) <= i
              /\ Len(villainMap[n].value.appearances) <= Len(Issues)
    /\ Returned =>
          \A n \in DOMAIN Villains : StrictlyAscending(Villains[n].appearances)

\* records in descending issue order, the first naming the villain twice
C3_Witness ==
    /\ Returned
    /\ Len(Issues) = 2
    /\ Issues[1].issueNumber > Issues[2].issueNumber
    /\ \E a, b, c \in attrib :
          /\ a.rec = 1 /\ b.rec = 1 /\ a.pos # b.pos /\ c.rec = 2
          /\ a.slot # 0 /\ a.slot = b.slot /\ b.slot = c.slot
          /\ Len(Villains[a.slot].appearances) = 2

----------------------------------------------------------------------------
(* C4 *)

\* C4: in the result the firstAppearance of every villain is the minimum of
\* its appearances, for any order of the input records.
C4_FirstAppearanceIsMinimum ==
    Returned =>
        \A n \in DOMAIN Villains :
            Villains[n].firstAppearance = MinOf(Villains[n].appearances)

----------------------------------------------------------------------------
(* C5 *)

\* C5: the timeline has one entry per input record, in input order, with the
\* record's issue number; the villains of an entry are exactly the registry
\* entries whose appearances contain that issue number, each listed once, and
\* villainCount is the length of that list.
C5_TimelineMatchesRegistry ==
    Returned =>
        /\ Len(Timeline) = Len(Issues)
        /\ \A k \in DOMAIN Timeline :
              /\ Timeline[k].issue = Issues[k].issueNumber
              /\ Range(Timeline[k].villains) =
                     { v \in Range(Villains) :
                           Issues[k].issueNumber \in Range(v.appearances) }
              /\ NoDuplicates(Timeline[k].villains)
              /\ Timeline[k].villainCount = Len(Timeline[k].villains)

\* the second record names one villain, who first appeared in the first
\* record, and the first record names two
C5_Witness ==
    /\ Returned
    /\ Len(Timeline) = 2
    /\ Timeline[1].villainCount = 2
    /\ Timeline[2].villainCount = 1
    /\ Timeline[2].villains[1].firstAppearance # Timeline[2].issue

----------------------------------------------------------------------------
(* C6 *)

\* the position in the registry of the entry the rule of C6 selects
ChosenByRule ==
    CHOOSE n \in DOMAIN Villains :
        \A m \in DOMAIN Villains :
            \/ Villains[n].frequency > Villains[m].frequency
            \/ /\ Villains[n].frequency = Villains[m].frequency
               /\ \/ Villains[n].firstAppearance < Villains[m].firstAppearance
                  \/ /\ Villains[n].firstAppearance = Villains[m].firstAppearance
                     /\ n <= m

\* C6: mostFrequent is a registry entry of maximal frequency; among the
\* entries tied on frequency it is the one with the earliest firstAppearance,
\* and among those still tied the one inserted first; for any input order.
C6_MostFrequentTieBreak ==
    (Returned /\ Len(Villains) > 0) =>
        Stats.mostFrequent = Villains[ChosenByRule]

----------------------------------------------------------------------------
(* C7 *)

\* records {1: [A, B]}, {2: [A]}
ScenarioE ==
    RawVillainData(
        <<[issueNumber |-> 1, title |-> "scraped",
           antagonists |-> << <<"O","x">>, <<"o","x">> >>],
          [issueNumber |-> 2, title |-> "scraped",
           antagonists |-> << <<"O","x">> >>]>>)

\* C7: totalVillains is the number of registry entries; averageFrequency is
\* the sum of the frequencies divided by totalVillains for a non-empty
\* registry and exactly 0 for an empty one; scenario E gives 2 and 3/2.
C7_TotalAndAverage ==
    Returned =>
        /\ Stats.totalVillains = Len(Villains)
        /\ Stats.averageFrequency.den # 0
        /\ Len(Villains) = 0 => Stats.averageFrequency.num = 0
        /\ Len(Villains) > 0 =>
               Stats.averageFrequency.num * Stats.totalVillains =
                   SumFrequency(Villains) * Stats.averageFrequency.den
        /\ rawData = ScenarioE =>
               /\ Stats.totalVillains = 2
               /\ Stats.averageFrequency.num * 2 = 3 * Stats.averageFrequency.den

\* scenario E has been aggregated
C7_Witness ==
    /\ Returned
    /\ rawData = ScenarioE
    /\ Stats.totalVillains = 2

----------------------------------------------------------------------------
(* C8 *)

\* the input is no sequence of records, or one of its records lacks the issue
\* number
Malformed ==
    \/ rawData.isNull
    \/ ~rawData.issuesIsArray
    \/ \E k \in DOMAIN rawData.issues : rawData.issues[k].issueNumber = Undefined

\* C8: whenever the input is not a sequence of records or a record lacks its
\* issue number, the call fails with an error and produces no result.
C8_MalformedInputFails ==
    Malformed => (~Returned /\ result = NoResult)

----------------------------------------------------------------------------
(* C9 *)

\* the record the loop is at has an empty antagonist list
AtEmptyRecord == InLoop /\ Issues[i].antagonists = <<>>

SharesIssueNumber(k) ==
    \E m \in DOMAIN Issues : m # k /\ Issues[m].issueNumber = Issues[k].issueNumber

EmptyRecordsInTimeline ==
    Returned =>
        /\ Len(Timeline) = Len(Issues)
        /\ \A k \in DOMAIN Issues :
              Issues[k].antagonists = <<>> =>
                  /\ Timeline[k].issue = Issues[k].issueNumber
                  /\ ~SharesIssueNumber(k) => Timeline[k].villainCount = 0

\* C9: a record with an empty antagonist list never makes the call fail (the
\* call fails only on an input that is null or has no issues array) and the
\* step over it leaves the registry as it is; the record has its timeline
\* entry, with villainCount 0 when no other record shares its issue number.
C9_EmptyListsAreHarmless ==
    /\ [][AtEmptyRecord => (villainMap' = villainMap /\ pc' # "thrown")]_vars
    /\ [](pc = "thrown" => (rawData.isNull \/ ~rawData.issuesIsArray))
    /\ []EmptyRecordsInTimeline

\* the placeholder of a failed fetch comes first, a record with a villain second
C9_Witness ==
    /\ Returned
    /\ Len(Issues) = 2
    /\ Issues[1].title = "failed"
    /\ Issues[1].issueNumber # Issues[2].issueNumber
    /\ Timeline[1].villainCount = 0
    /\ Timeline[2].villainCount = 1
    /\ Len(Villains) = 1

----------------------------------------------------------------------------
(* C10 *)

SameInputSameResult ==
    \A a, b \in DOMAIN log :
        log[a].input = log[b].input => log[a].result = log[b].result

\* every registry entry of a returned call comes from a raw name of that call
RegistryBuiltFromScratch ==
    Returned => \A n \in DOMAIN Villains : \E a \in attrib : a.slot = n

\* C10: calls on the same records return the same villains, timeline and
\* statistics, whatever was aggregated in between; each call builds its
\* registry from the names of its own input; no step of a call changes the
\* input records.
C10_DeterministicAndStateless ==
    /\ []SameInputSameResult
    /\ []RegistryBuiltFromScratch
    /\ [][pc # "done" => rawData' = rawData]_vars

\* the first input has been aggregated again after a different one
C10_Witness ==
    /\ Returned
    /\ Len(log) = 3
    /\ log[1].input = log[3].input
    /\ log[2].input # log[1].input
    /\ Len(log[1].result.villains) = 2

----------------------------------------------------------------------------
(* normalizeVillainName and generateVillainId called on their own *)

MaxLen == 4

StrAlphabet == {"a", "A", " ", "(", ")", ",", "'"}

\* the strings of the unit tests of the two functions
GreenGoblinAlias == <<"G","r","e","e","n"," ","G","o","b","l","i","n"," ","(","N","o","r","m","a","n"," ","O","s","b","o","r","n",")">>

GreenGoblin == <<"G","r","e","e","n"," ","G","o","b","l","i","n">>

VenomComplex == <<" "," ","V","e","n","o","m"," ","(","E","d","d","i","e"," ","B","r","o","c","k",")",","," "," ">>

Venom == <<"V","e","n","o","m">>

SpiderMan2 == <<"S","p","i","d","e","r"," "," ","M","a","n">>

DoctorOctopuss == <<"D","o","c","t","o","r"," ","O","c","t","o","p","u","s","'","s">>

TestNames ==
    {GreenGoblinAlias, GreenGoblin, VenomComplex, SpiderMan2, DoctorOctopuss}

Strings == SeqsUpTo(StrAlphabet, MaxLen) \cup TestNames

CallNormalize ==
    /\ fn = "none"
    /\ fn' = "normalizeVillainName"
    /\ ret' = normalizeVillainName(arg)
    /\ UNCHANGED <<arg, aggVars, parseVars, scrapeVars, d3Vars>>

CallGenerateId ==
    /\ fn = "none"
    /\ fn' = "generateVillainId"
    /\ ret' = generateVillainId(arg)
    /\ UNCHANGED <<arg, aggVars, parseVars, scrapeVars, d3Vars>>

\* no processVillainData call is under way
AggIdle ==
    /\ rawData = NullData
    /\ pc = "idle"
    /\ i = 0
    /\ j = 0
    /\ villainMap = <<>>
    /\ result = NoResult
    /\ attrib = {}
    /\ log = <<>>

InitStrings ==
    /\ arg \in Strings
    /\ fn = "none"
    /\ ret = <<>>
    /\ AggIdle
    /\ ParseIdle
    /\ ScrapeIdle
    /\ D3Idle

NextStrings == CallNormalize \/ CallGenerateId

\* one call of one of the two string functions on a string of Strings
SpecStrings == InitStrings /\ [][NextStrings]_vars

----------------------------------------------------------------------------
(* C11 *)

\* the n-th smallest element of a set of indices
NthOf(K, n) == CHOOSE k \in K : Cardinality({m \in K : m <= k}) = n

\* the characters of s at the indices K, in order
Pick(s, K) == [n \in 1..Cardinality(K) |-> s[NthOf(K, n)]]

RefTrim(s) ==
    LET solid == { k \in DOMAIN s : ~IsSpace(s[k]) }
    IN  Pick(s, { k \in DOMAIN s :
                    (\E a \in solid : a <= k) /\ (\E b \in solid : k <= b) })

\* a character is inside a parenthesized span when a "(" at or before it has
\* no ")" up to it and is closed at or after it
RefDeleteParenthesized(s) ==
    LET inside(k) ==
            \E p \in 1..k :
                /\ s[p] = "("
                /\ \A m \in p..(k - 1) : s[m] # ")"
                /\ \E q \in k..Len(s) : s[q] = ")"
    IN  Pick(s, { k \in DOMAIN s : ~inside(k) })

RefStripTrailingPunct(s) ==
    Pick(s, { k \in DOMAIN s : \E b \in k..Len(s) : ~IsTrailingPunct(s[b]) })

RefCollapse(s) ==
    LET kept == { k \in DOMAIN s :
                    ~(IsSpace(s[k]) /\ k > 1 /\ IsSpace(s[k - 1])) }
        t == Pick(s, kept)
    IN  [n \in DOMAIN t |-> IF IsSpace(t[n]) THEN " " ELSE t[n]]

SixStepReference(raw) ==
    RefCollapse(
        RefTrim(RefStripTrailingPunct(RefTrim(RefDeleteParenthesized(RefTrim(raw))))))

\* C11: normalizeVillainName returns what the six steps give in this order:
\* trim, delete every parenthesized span, trim, strip the trailing run of
\* , ; : . characters, trim, collapse every run of white space to one space;
\* '  Venom (Eddie Brock),  ' gives 'Venom' and 'Green Goblin (Norman
\* Osborn)' gives 'Green Goblin'.
C11_SixStepNormalization ==
    fn = "normalizeVillainName" =>
        /\ ret = SixStepReference(arg)
        /\ arg = VenomComplex => ret = Venom
        /\ arg = GreenGoblinAlias => ret = GreenGoblin

\* the complex case of the unit test has been normalized
C11_Witness ==
    /\ fn = "normalizeVillainName"
    /\ arg = VenomComplex
    /\ ret = Venom

----------------------------------------------------------------------------
(* C12 *)

\* C12: raw names that differ only in letter case are filed under the same
\* villain entry.
C12_CaseStandardized ==
    \A a, b \in attrib :
        toLowerCase(RawOf(a)) = toLowerCase(RawOf(b)) => a.slot = b.slot

----------------------------------------------------------------------------
(* C13 *)

\* the lowercase name with every maximal run of characters outside [a-z0-9]
\* replaced by one "-", the runs at the two ends dropped
RefSlug(name) ==
    LET low == toLowerCase(name)
        alnum == { k \in DOMAIN low : IsLowerAlnum(low[k]) }
        runStart(k) == ~IsLowerAlnum(low[k]) /\ (k = 1 \/ IsLowerAlnum(low[k - 1]))
        interior(k) == (\E a \in alnum : a < k) /\ (\E b \in alnum : k < b)
        kept == alnum \cup { k \in DOMAIN low : runStart(k) /\ interior(k) }
        t == Pick(low, kept)
    IN  [n \in DOMAIN t |-> IF IsLowerAlnum(t[n]) THEN t[n] ELSE "-"]

----------------------------------------------------------------------------
(* C14 *)

\* the name without the characters that are neither letters, digits nor spaces
DeleteSpecials(name) ==
    SelectSeq(name, LAMBDA c : IsLowerAlnum(ToLowerChar(c)) \/ c = " ")

\* C14: a special character inside a word is deleted, not turned into a
\* separator: the id of "Doctor Octopus's" is 'doctor-octopuss'.
C14_SpecialCharactersRemoved ==
    fn = "generateVillainId" =>
        /\ ret = RefSlug(DeleteSpecials(arg))
        /\ arg = DoctorOctopuss => ret = <<"d","o","c","t","o","r","-","o","c","t","o","p","u","s","s">>

----------------------------------------------------------------------------
(* parseAntagonistsFromHtml *)

MaxParts == 3
MaxBlocks == 5
MaxThrowAt == 3

\* the characters of the class [\s⏴◀▶→←↑↓] other than white space, by code point
ArrowClass == {"U+23F4", "U+25C0", "U+25B6", "U+2192", "U+2190", "U+2191", "U+2193"}

\* match(/^[\s⏴◀▶→←↑↓]+$/)
MatchesArrowsOnly(t) ==
    /\ t # <<>>
    /\ \A k \in DOMAIN t : IsSpace(t[k]) \/ t[k] \in ArrowClass

\* match(/^See/i)
MatchesSee(t) ==
    /\ Len(t) >= 3
    /\ toLowerCase(SubSeq(t, 1, 3)) = <<"s", "e", "e">>

\* a list item is the sequence of its links and text nodes in document order
Link(t) == [kind |-> "a", text |-> t]

TextNode(t) == [kind |-> "text", text |-> t]

\* $li.find('a')
LinksOf(li) == SelectSeq(li, LAMBDA part : part.kind = "a")

\* $li.text()
RECURSIVE TextOf(_)
TextOf(li) == IF li = <<>> THEN <<>> ELSE Head(li).text \o TextOf(Tail(li))

\* split('\n')[0]
FirstLine(t) ==
    LET breaks == { k \in DOMAIN t : t[k] = "\n" }
    IN  IF breaks = {} THEN t
        ELSE SubSeq(t, 1, (CHOOSE k \in breaks : \A m \in breaks : k <= m) - 1)

\* the condition of the loop over several links
LinkQualifies(linkText) ==
    /\ linkText # <<>>
    /\ Len(linkText) > 1
    /\ ~MatchesArrowsOnly(linkText)
    /\ ~MatchesSee(linkText)

\* let name = ''; if (links.length === 1) ... else if (links.length > 1) ...
NameFromLinks(li) ==
    LET links == LinksOf(li)
        good == { n \in DOMAIN links : LinkQualifies(trim(links[n].text)) }
    IN  IF Len(links) = 1 THEN trim(links[1].text)
        ELSE IF Len(links) > 1 /\ good # {}
             THEN trim(links[CHOOSE n \in good : \A m \in good : n <= m].text)
             ELSE <<>>

\* if (!name) { const text = $li.text().split('\n')[0].trim(); ... }
NameFromText(li) ==
    LET text == trim(FirstLine(TextOf(li)))
    IN  IF text # <<>> /\ Len(text) > 1 /\ ~MatchesArrowsOnly(text)
        THEN text ELSE <<>>

ExtractName(li) ==
    LET name == NameFromLinks(li)
    IN  IF name = <<>> THEN NameFromText(li) ELSE name

\* if (name && name.length > 1) antagonists.push(name)
Push(list, name) ==
    IF name # <<>> /\ Len(name) > 1 THEN Append(list, name) ELSE list

\* the page is the sequence of the sibling elements that hold the headings;
\* label says that the element is, or has inside it, a <b> with 'Antagonists'
H2Appearing == [tag |-> "h2", appearing |-> TRUE, label |-> FALSE, items |-> <<>>]

H2Other == [tag |-> "h2", appearing |-> FALSE, label |-> FALSE, items |-> <<>>]

PLabel == [tag |-> "p", appearing |-> FALSE, label |-> TRUE, items |-> <<>>]

BLabel == [tag |-> "b", appearing |-> FALSE, label |-> TRUE, items |-> <<>>]

Ul(items) == [tag |-> "ul", appearing |-> FALSE, label |-> FALSE, items |-> items]

UlLabel(items) == [tag |-> "ul", appearing |-> FALSE, label |-> TRUE, items |-> items]

\* ($el.is('b') && $el.text().includes('Antagonists')) ||
\* $el.find('b:contains("Antagonists")').length > 0
hasAntagonistLabel(el) ==
    \/ el.tag = "b" /\ el.label
    \/ el.tag # "b" /\ el.label

\* $el.is('ul, ol') ? $el : $el.next('ul, ol'), as an index; 0 when empty
nextList(blocks, e) ==
    IF blocks[e].tag = "ul" THEN e
    ELSE IF e < Len(blocks) /\ blocks[e + 1].tag = "ul" THEN e + 1
    ELSE 0

\* nextList.find('li').each for the element e of the section opened at s
ElementVisits(blocks, s, e) ==
    LET l == nextList(blocks, e)
    IN  IF hasAntagonistLabel(blocks[e]) /\ l # 0
        THEN [k \in DOMAIN blocks[l].items |->
                 [section |-> s, from |-> e, list |-> l, item |-> k]]
        ELSE <<>>

\* content.each over the elements e..last
RECURSIVE ContentVisits(_, _, _, _)
ContentVisits(blocks, s, e, last) ==
    IF e > last THEN <<>>
    ELSE ElementVisits(blocks, s, e) \o ContentVisits(blocks, s, e + 1, last)

\* the section is closed only by the next heading with 'appearing in'
nextAppearingH2(blocks, s) ==
    LET later == { h \in (s + 1)..Len(blocks) :
                     blocks[h].tag = "h2" /\ blocks[h].appearing }
    IN  IF later = {} THEN 0 ELSE CHOOSE h \in later : \A m \in later : h <= m

\* heading.nextAll('h2').first(), as an index; 0 when empty
nextH2(blocks, s) ==
    LET later == { h \in (s + 1)..Len(blocks) : blocks[h].tag = "h2" }
    IN  IF later = {} THEN 0 ELSE CHOOSE h \in later : \A m \in later : h <= m

\* heading.nextUntil(nextH2) or heading.nextAll()
SectionVisits(blocks, s) ==
    IF blocks[s].tag = "h2" /\ blocks[s].appearing
    THEN ContentVisits(blocks, s, s + 1,
             IF nextH2(blocks, s) > 0 THEN nextH2(blocks, s) - 1 ELSE Len(blocks))
    ELSE <<>>

\* only the first element of $('h2') is looked at
RECURSIVE FirstHeadingOnly(_, _)
FirstHeadingOnly(blocks, s) ==
    IF s > Len(blocks) THEN <<>>
    ELSE IF blocks[s].tag = "h2" THEN SectionVisits(blocks, s)
    ELSE FirstHeadingOnly(blocks, s + 1)

\* for (let i = 0; i < sections.length; i++): the list items in the order
\* in which the callback of line 196 gets them
RECURSIVE VisitsFrom(_, _)
VisitsFrom(blocks, s) ==
    IF s > Len(blocks) THEN <<>>
    ELSE SectionVisits(blocks, s) \o VisitsFrom(blocks, s + 1)

Visits(blocks) == VisitsFrom(blocks, 1)

ItemOf(blocks, v) == blocks[v.list].items[v.item]

\* the names collected before the failure are returned
CaughtPartial(collected) == collected

\* catch (error) { ...; return []; }
CaughtResult(collected) == <<>>

\* the exception, if any, comes when html.throwsAt - 1 items have been handled
ThrowsNow(h, done) == h.throwsAt = done + 1

RECURSIVE Collect(_, _, _)
Collect(blocks, vs, list) ==
    IF vs = <<>> THEN list
    ELSE Collect(blocks, Tail(vs), Push(list, ExtractName(ItemOf(blocks, Head(vs)))))

\* the whole call
parseAntagonistsFromHtml(h) ==
    LET vs == Visits(h.blocks)
    IN  IF h.throwsAt \in 1..(Len(vs) + 1)
        THEN CaughtResult(Collect(h.blocks, SubSeq(vs, 1, h.throwsAt - 1), <<>>))
        ELSE Collect(h.blocks, vs, <<>>)

VisitItem ==
    /\ ppc = "called"
    /\ ~ThrowsNow(html, visit)
    /\ visit < Len(Visits(html.blocks))
    /\ antagonists' =
           Push(antagonists,
                ExtractName(ItemOf(html.blocks, Visits(html.blocks)[visit + 1])))
    /\ visit' = visit + 1
    /\ UNCHANGED <<html, ppc, parsed>>
    /\ UNCHANGED <<aggVars, strVars, scrapeVars, d3Vars>>

ParseThrow ==
    /\ ppc = "called"
    /\ ThrowsNow(html, visit)
    /\ ppc' = "caught"
    /\ parsed' = CaughtResult(antagonists)
    /\ UNCHANGED <<html, visit, antagonists>>
    /\ UNCHANGED <<aggVars, strVars, scrapeVars, d3Vars>>

ParseReturn ==
    /\ ppc = "called"
    /\ ~ThrowsNow(html, visit)
    /\ visit = Len(Visits(html.blocks))
    /\ ppc' = "returned"
    /\ parsed' = antagonists
    /\ UNCHANGED <<html, visit, antagonists>>
    /\ UNCHANGED <<aggVars, strVars, scrapeVars, d3Vars>>

\* texts of links and text nodes
Ox == <<"O", "x">>

PaddedAl == <<" ", "A", "l", " ">>

Al == <<"A", "l">>

LeftArrow == <<"U+23F4">>

RightArrow == <<"U+23F5">>

LeftArrows == <<"U+23F4", "U+23F4">>

RightArrows == <<"U+23F5", "U+23F5">>

SeeChronology == <<"S", "e", "e", " ", "c">>

BreakThenMo == <<"\n", "M", "o">>

PartTexts ==
    {Ox, PaddedAl, LeftArrow, RightArrow, LeftArrows, RightArrows,
     SeeChronology, BreakThenMo}

Parts == { Link(t) : t \in PartTexts } \cup { TextNode(t) : t \in PartTexts }

ListItems == SeqsUpTo(Parts, MaxParts)

\* <li>⏴ <a>name</a> ⏵</li> with the arrows as links, as on the wiki
NavigatedOx == <<Link(LeftArrow), Link(Ox), Link(RightArrow)>>

OxList == Ul(<<NavigatedOx>>)

AlList == Ul(<<<<TextNode(PaddedAl)>>, <<Link(LeftArrow)>>, <<Link(BreakThenMo)>>>>)

OxListLabelled == UlLabel(<<NavigatedOx>>)

Blocks == {H2Appearing, H2Other, PLabel, BLabel, OxList, AlList, OxListLabelled}

\* one story with one antagonist list of one item
ItemPages == { <<H2Appearing, PLabel, Ul(<<li>>)>> : li \in ListItems }

\* two stories, as in the test of issue 1
TwoStories ==
    <<H2Appearing, PLabel, AlList, OxList, H2Appearing, PLabel, OxList>>

Pages == ItemPages \cup SeqsUpTo(Blocks, MaxBlocks) \cup {TwoStories}

Documents ==
    { [throwsAt |-> 0, blocks |-> b] : b \in Pages }
    \cup { [throwsAt |-> t, blocks |-> b] :
             t \in 1..MaxThrowAt, b \in SeqsUpTo(Blocks, 3) \cup {TwoStories} }

InitParse ==
    /\ html \in Documents
    /\ ppc = "called"
    /\ visit = 0
    /\ antagonists = <<>>
    /\ parsed = <<>>
    /\ AggIdle
    /\ StrIdle
    /\ ScrapeIdle
    /\ D3Idle

NextParse == VisitItem \/ ParseThrow \/ ParseReturn

\* one call of parseAntagonistsFromHtml on one document
SpecParse == InitParse /\ [][NextParse]_vars

----------------------------------------------------------------------------
(* C15 - C19 *)

\* the glyphs that point left, right, up or down
NavigationGlyphs == ArrowClass \cup {"U+23F5"}

GlyphsOnly(t) ==
    /\ t # <<>>
    /\ \A k \in DOMAIN t : IsSpace(t[k]) \/ t[k] \in NavigationGlyphs

IsItemPage == html.blocks \in ItemPages

TheItem == html.blocks[3].items[1]

\* C15: for an item with more than one link the name is the trimmed text of
\* the first link whose trimmed text is longer than one character, is not
\* made of white space and navigation glyphs only and does not start with
\* 'see' in any case, whenever there is such a link.
C15_FirstQualifyingLink ==
    (ppc = "returned" /\ IsItemPage /\ Len(LinksOf(TheItem)) > 1) =>
        LET links == LinksOf(TheItem)
            good == { n \in DOMAIN links :
                        /\ Len(trim(links[n].text)) > 1
                        /\ ~GlyphsOnly(trim(links[n].text))
                        /\ ~MatchesSee(trim(links[n].text)) }
        IN  good # {} =>
                parsed = <<trim(links[CHOOSE n \in good : \A m \in good : n <= m].text)>>

\* C16: no returned name is empty or made of navigation glyphs and white
\* space only, and an item whose links and text are all of that kind gives
\* no name.
C16_ArrowOnlyItemsGiveNothing ==
    ppc = "returned" =>
        /\ \A k \in DOMAIN parsed : parsed[k] # <<>> /\ ~GlyphsOnly(parsed[k])
        /\ (IsItemPage /\ \A n \in DOMAIN TheItem : GlyphsOnly(TheItem[n].text))
               => parsed = <<>>

\* C17: no list item gives two names, every collected name is trimmed and
\* longer than one character, and there are no more names than items visited.
C17_OneNamePerItem ==
    LET vs == Visits(html.blocks)
        gives(n) == Len(ExtractName(ItemOf(html.blocks, vs[n]))) > 1
    IN  /\ \A n, m \in 1..visit :
               (vs[n].list = vs[m].list /\ vs[n].item = vs[m].item
                   /\ gives(n) /\ gives(m)) => n = m
        /\ \A k \in DOMAIN antagonists :
               trim(antagonists[k]) = antagonists[k] /\ Len(antagonists[k]) > 1
        /\ Len(antagonists) <= visit

\* the antagonist lists: the lists that directly follow a label
AntagonistLists(blocks) ==
    { l \in 2..Len(blocks) :
        /\ blocks[l].tag = "ul"
        /\ blocks[l - 1].tag \in {"p", "b"} /\ blocks[l - 1].label }

\* every heading opens a story, the page starts with one, no list carries
\* the label itself, and every story holds an antagonist list
StoryPage(blocks) ==
    LET heads == { h \in DOMAIN blocks : blocks[h].tag = "h2" }
    IN  /\ 1 \in heads
        /\ \A h \in heads : blocks[h].appearing
        /\ \A l \in DOMAIN blocks : blocks[l].tag = "ul" => ~blocks[l].label
        /\ \A h \in heads :
               \E l \in AntagonistLists(blocks) :
                   h < l /\ \A g \in heads : ~(h < g /\ g < l)

RECURSIVE NamesOfItems(_)
NamesOfItems(items) ==
    IF items = <<>> THEN <<>>
    ELSE LET name == ExtractName(Head(items))
         IN  (IF Len(name) > 1 THEN <<name>> ELSE <<>>) \o NamesOfItems(Tail(items))

\* the names of the antagonist lists from block l on, in document order
RECURSIVE NamesFrom(_, _)
NamesFrom(blocks, l) ==
    IF l > Len(blocks) THEN <<>>
    ELSE (IF l \in AntagonistLists(blocks)
          THEN NamesOfItems(blocks[l].items) ELSE <<>>) \o NamesFrom(blocks, l + 1)

C19_FailureGivesEmptyList ==
    /\ [](ppc = "caught" => parsed = <<>>)
    /\ [][(ppc = "called" /\ ThrowsNow(html, visit))
              => (ppc' = "caught" /\ parsed' = <<>>)]_vars

\* a failure after names had been collected
C19_Witness ==
    /\ ppc = "caught"
    /\ antagonists # <<>>
    /\ parsed = <<>>

----------------------------------------------------------------------------
(* scrapeAmazingSpiderManVol1 and scrapeIssue *)

MaxEnd == 3

REQUEST_DELAY_MS == 1000

\* what axios resolves with: a page, or a page on which parsing fails
ResponseDocs ==
    { [throwsAt |-> 0, blocks |-> TwoStories],
      [throwsAt |-> 0, blocks |-> <<H2Other, PLabel, OxList>>],
      [throwsAt |-> 1, blocks |-> TwoStories] }

\* the ways in which scrapeIssue throws: a rejected get (HTTP status, network
\* error, timeout) or a response without data
FetchFailures == {"axios error", "no data"}

\* return { issueNumber, title: `Amazing Spider-Man #${issueNumber}`, antagonists }
ScrapedRecord(issueNumber, doc) ==
    [issueNumber |-> issueNumber, title |-> "scraped",
     antagonists |-> parseAntagonistsFromHtml(doc)]

\* the failed issue leaves no record
SkipFailed(list, issueNumber) == list

\* issues.push({ issueNumber, title: `Issue ${issueNumber} (Failed)`, antagonists: [] })
PushFailed(list, issueNumber) ==
    Append(list, [issueNumber |-> issueNumber, title |-> "failed",
                  antagonists |-> <<>>])

\* the test of startIssue is left out
InvalidRangeEndOnly == endIssue < startIssue

InvalidRange == startIssue < 1 \/ endIssue < startIssue

\* if (startIssue < 1 || endIssue < startIssue) throw new Error(...)
RejectRange ==
    /\ spc = "called"
    /\ InvalidRange
    /\ spc' = "thrown"
    /\ UNCHANGED <<startIssue, endIssue, cur, scrapedIssues, requestCount, events>>
    /\ UNCHANGED <<aggVars, strVars, parseVars, d3Vars>>

\* const issues = []; const issueNumbers = Array.from(...): an array of
\* length endIssue - startIssue + 1
StartLoop ==
    /\ spc = "called"
    /\ ~InvalidRange
    /\ IF endIssue - startIssue + 1 > 0
       THEN cur' = startIssue /\ spc' = "request"
       ELSE cur' = cur /\ spc' = "finish"
    /\ UNCHANGED <<startIssue, endIssue, scrapedIssues, requestCount, events>>
    /\ UNCHANGED <<aggVars, strVars, parseVars, d3Vars>>

\* await this.axiosClient.get(url)
SendRequest ==
    /\ spc = "request"
    /\ spc' = "fetching"
    /\ events' = Append(events, [kind |-> "get", issue |-> cur, ms |-> 0])
    /\ UNCHANGED <<startIssue, endIssue, cur, scrapedIssues, requestCount>>
    /\ UNCHANGED <<aggVars, strVars, parseVars, d3Vars>>

\* the for-of loop goes to the next issue number, or ends
Advance ==
    IF cur = endIssue
    THEN spc' = "finish" /\ cur' = cur
    ELSE spc' = "request" /\ cur' = cur + 1

\* scrapeIssue returns; issues.push(issueData)
FetchSucceeds ==
    /\ spc = "fetching"
    /\ \E doc \in ResponseDocs :
           scrapedIssues' = Append(scrapedIssues, ScrapedRecord(cur, doc))
    /\ spc' = "delaying"
    /\ events' = Append(events, [kind |-> "response", issue |-> cur, ms |-> 0])
    /\ UNCHANGED <<startIssue, endIssue, cur, requestCount>>
    /\ UNCHANGED <<aggVars, strVars, parseVars, d3Vars>>

\* scrapeIssue throws; catch (error) { issues.push({...}) }
FetchFails ==
    /\ spc = "fetching"
    /\ \E why \in FetchFailures :
           events' = Append(events, [kind |-> why, issue |-> cur, ms |-> 0])
    /\ scrapedIssues' = PushFailed(scrapedIssues, cur)
    /\ Advance
    /\ UNCHANGED <<startIssue, endIssue, requestCount>>
    /\ UNCHANGED <<aggVars, strVars, parseVars, d3Vars>>

\* await this.delay(REQUEST_DELAY_MS)
Delay ==
    /\ spc = "delaying"
    /\ events' =
           Append(events, [kind |-> "delay", issue |-> cur, ms |-> REQUEST_DELAY_MS])
    /\ Advance
    /\ UNCHANGED <<startIssue, endIssue, scrapedIssues, requestCount>>
    /\ UNCHANGED <<aggVars, strVars, parseVars, d3Vars>>

\* return { series, baseUrl, issues }
ScrapeReturn ==
    /\ spc = "finish"
    /\ spc' = "done"
    /\ UNCHANGED <<startIssue, endIssue, cur, scrapedIssues, requestCount, events>>
    /\ UNCHANGED <<aggVars, strVars, parseVars, d3Vars>>

InitScrape ==
    /\ startIssue \in 0..MaxEnd
    /\ endIssue \in 0..MaxEnd
    /\ spc = "called"
    /\ cur = 0
    /\ scrapedIssues = <<>>
    /\ requestCount = 0
    /\ events = <<>>
    /\ AggIdle
    /\ StrIdle
    /\ ParseIdle
    /\ D3Idle

NextScrape ==
    \/ RejectRange
    \/ StartLoop
    \/ SendRequest
    \/ FetchSucceeds
    \/ FetchFails
    \/ Delay
    \/ ScrapeReturn

SpecScrape == InitScrape /\ [][NextScrape]_vars

\* every await of the one async function settles: the get within the
\* client's timeout, the delay after REQUEST_DELAY_MS
SpecScrapeFair == SpecScrape /\ WF_vars(NextScrape)

----------------------------------------------------------------------------
(* C20 *)

Failed(n) == \E e \in DOMAIN events :
                 events[e].issue = n /\ events[e].kind \in FetchFailures

RecordsComplete ==
    /\ Len(scrapedIssues) = endIssue - startIssue + 1
    /\ \A k \in DOMAIN scrapedIssues :
           /\ scrapedIssues[k].issueNumber = startIssue + k - 1
           /\ Failed(startIssue + k - 1) =>
                  /\ scrapedIssues[k].title = "failed"
                  /\ scrapedIssues[k].antagonists = <<>>

\* C20: a call with a valid range always completes, with one record per
\* issue number from start to end in ascending order whichever fetches
\* fail; a failed fetch leaves a record with that number, no antagonists
\* and the failure title.
C20_EveryIssueGetsARecord ==
    /\ [](spc = "done" => RecordsComplete)
    /\ [](~InvalidRange => spc # "thrown")
    /\ (spc = "called" /\ ~InvalidRange) ~> (spc = "done")

\* a run that went on after a failed fetch
C20_Witness ==
    /\ spc = "done"
    /\ Len(scrapedIssues) = 3
    /\ scrapedIssues[1].title = "failed"
    /\ scrapedIssues[2].title = "scraped" /\ scrapedIssues[2].antagonists # <<>>
    /\ scrapedIssues[3].title = "failed"

----------------------------------------------------------------------------
(* C21 - C23 *)

Gets == { e \in DOMAIN events : events[e].kind = "get" }

\* C21: a range with startIssue < 1 or endIssue < startIssue is rejected
\* before any request and without any record, and every range with
\* 1 <= startIssue <= endIssue is accepted.
C21_InvalidRangeRejectedFirst ==
    /\ (startIssue < 1 \/ endIssue < startIssue) =>
           /\ spc \in {"called", "thrown"}
           /\ events = <<>>
           /\ scrapedIssues = <<>>
    /\ (1 <= startIssue /\ startIssue <= endIssue) => spc # "thrown"

\* an invalid range with a start that is at least 1 has been rejected
C21_Witness ==
    /\ spc = "thrown"
    /\ startIssue = 2 /\ endIssue = 1
    /\ events = <<>>

\* C22: the request count is the number of page requests issued so far.
C22_RequestCountTracksRequests == requestCount = Cardinality(Gets)

\* C23: between two consecutive page requests of a run there is a delay of
\* REQUEST_DELAY_MS, whether the earlier request succeeded or failed, and
\* a request is only issued when the one before it has been answered.
C23_DelayBetweenRequests ==
    \A a, b \in Gets :
        (a < b /\ \A c \in Gets : ~(a < c /\ c < b)) =>
            /\ \E d \in (a + 1)..(b - 1) :
                   events[d].kind = "delay" /\ events[d].ms = REQUEST_DELAY_MS
            /\ \E r \in (a + 1)..(b - 1) :
                   events[r].kind \in {"response"} \cup FetchFailures

----------------------------------------------------------------------------
(* formatDataForD3 and generateD3Config *)

COLOR_PALETTE ==
    <<"#e74c3c", "#3498db", "#2ecc71", "#f39c12", "#9b59b6",
      "#1abc9c", "#e67e22", "#34495e", "#16a085", "#d35400",
      "#c0392b", "#8e44ad", "#27ae60", "#2980b9", "#f1c40f">>

\* String.prototype.charCodeAt for the characters of the names
charCodeAt(c) ==
    IF c \in Range(UpperLetters)
    THEN 64 + (CHOOSE k \in DOMAIN UpperLetters : UpperLetters[k] = c)
    ELSE IF c \in Range(LowerLetters)
    THEN 96 + (CHOOSE k \in DOMAIN LowerLetters : LowerLetters[k] = c)
    ELSE IF c = "(" THEN 40
    ELSE IF c = ")" THEN 41
    ELSE IF c = "," THEN 44
    ELSE 32

\* the 32-bit hash is kept as its two 16-bit halves [hi, lo];
\* hash = ((hash << 5) - hash) + charCodeAt(i); hash = hash & hash
\* leaves 31 * hash + code modulo 2^32
HashStep(hash, code) ==
    LET low == 31 * hash.lo + code
    IN  [hi |-> (31 * hash.hi + (low \div 65536)) % 65536, lo |-> low % 65536]

RECURSIVE HashFrom(_, _)
HashFrom(hash, name) ==
    IF name = <<>> THEN hash
    ELSE HashFrom(HashStep(hash, charCodeAt(Head(name))), Tail(name))

\* Math.abs(hash) % COLOR_PALETTE.length: the hash is negative when its top
\* bit is set, and 65536 % 15 = 1
colorIndex(hash) ==
    IF hash.hi < 32768
    THEN (hash.hi * (65536 % Len(COLOR_PALETTE)) + hash.lo) % Len(COLOR_PALETTE)
    ELSE ((65536 - hash.hi - 1) * (65536 % Len(COLOR_PALETTE))
              + (65536 - hash.lo)) % Len(COLOR_PALETTE)

getVillainColor(villainName) ==
    COLOR_PALETTE[colorIndex(HashFrom([hi |-> 0, lo |-> 0], villainName)) + 1]

\* villain.names[0]; undefined when the villain has no name
FirstName(v) == IF v.names = <<>> THEN <<>> ELSE v.names[1]

formatDataForD3(d) ==
    [k \in DOMAIN d.timeline |->
        [issueNumber |-> d.timeline[k].issue,
         villainsInIssue |->
             [n \in DOMAIN d.timeline[k].villains |->
                 FirstName(d.timeline[k].villains[n])],
         villainCount |-> d.timeline[k].villainCount]]

\* for (const villain of data.villains) colorMap.set(names[0], color)
RECURSIVE ColorMapFrom(_, _)
ColorMapFrom(m, villains) ==
    IF villains = <<>> THEN m
    ELSE ColorMapFrom(
             MapSet(m, FirstName(Head(villains)),
                    getVillainColor(FirstName(Head(villains)))),
             Tail(villains))

NegInfinity == "-Infinity"

\* Math.max(...numbers): -Infinity for no numbers
MathMax(numbers) ==
    IF numbers = <<>> THEN NegInfinity
    ELSE CHOOSE x \in Range(numbers) : \A y \in Range(numbers) : y <= x

Margin == [top |-> 20, right |-> 20, bottom |-> 30, left |-> 60]

generateD3Config(d, width, height) ==
    LET d3Data == formatDataForD3(d)
        maxIssue == MathMax([k \in DOMAIN d3Data |-> d3Data[k].issueNumber])
        maxVillains == MathMax([k \in DOMAIN d3Data |-> d3Data[k].villainCount])
    IN  [generated |-> TRUE,
         data |-> d3Data,
         scales |->
             [x |-> [domain |-> <<1, maxIssue>>,
                     range |-> <<Margin.left, width - Margin.right>>],
              y |-> [domain |-> <<0, maxVillains>>,
                     range |-> <<height - Margin.bottom, Margin.top>>]],
         colors |-> ColorMapFrom(<<>>, d.villains)]

\* registry entries and timeline entries as processVillainData makes them
D3Villains == { NewVillain(Ox, 1), NewVillain(Al, 2) }

TimelineEntries ==
    { [issue |-> n, villains |-> vs, villainCount |-> Len(vs)] :
          n \in 1..MaxIssue, vs \in SeqsUpTo(D3Villains, MaxNames) }

ProcessedDatas ==
    { [villains |-> vs, timeline |-> t] :
          vs \in SeqsUpTo(D3Villains, MaxNames),
          t \in SeqsUpTo(TimelineEntries, MaxRecords) }

\* width and height: the defaults, and a smaller canvas
CanvasSizes == { <<1200, 600>>, <<800, 400>> }

CallGenerateD3Config ==
    /\ config = NoConfig
    /\ \E size \in CanvasSizes : config' = generateD3Config(data, size[1], size[2])
    /\ UNCHANGED data
    /\ UNCHANGED <<aggVars, strVars, parseVars, scrapeVars>>

InitD3 ==
    /\ data \in ProcessedDatas
    /\ config = NoConfig
    /\ AggIdle
    /\ StrIdle
    /\ ParseIdle
    /\ ScrapeIdle

NextD3 == CallGenerateD3Config

\* one call of generateD3Config
SpecD3 == InitD3 /\ [][NextD3]_vars

----------------------------------------------------------------------------
(* C24 *)

\* C24: for a timeline that is not empty the x domain is the smallest and
\* the largest issue number of the timeline and the y domain is 0 and the
\* largest villainCount.
C24_ScaleDomains ==
    (config.generated /\ data.timeline # <<>>) =>
        LET issueNumbers == { data.timeline[k].issue : k \in DOMAIN data.timeline }
            counts == { data.timeline[k].villainCount : k \in DOMAIN data.timeline }
        IN  /\ config.scales.x.domain =
                   <<CHOOSE n \in issueNumbers : \A m \in issueNumbers : n <= m,
                     CHOOSE n \in issueNumbers : \A m \in issueNumbers : m <= n>>
            /\ config.scales.y.domain =
                   <<0, CHOOSE n \in counts : \A m \in counts : m <= n>>

----------------------------------------------------------------------------
(* C25 *)

\* C25: the villainCount of every timeline entry is the number of distinct
\* ids among its villains, and no two registry entries have the same id.
C25_IdsAreUnique ==
    Returned =>
        /\ \A k \in DOMAIN Timeline :
               Timeline[k].villainCount =
                   Cardinality({ v.id : v \in Range(Timeline[k].villains) })
        /\ \A a, b \in DOMAIN Villains :
               a # b => Villains[a].id # Villains[b].id

----------------------------------------------------------------------------
(* C26 *)

\* the item text up to its first line break, trimmed
ItemText == trim(FirstLine(TextOf(TheItem)))

\* the link step of C26 gives no name
NoNameFromLinks ==
    LET links == LinksOf(TheItem)
        t(n) == trim(links[n].text)
    IN  \/ links = <<>>
        \/ Len(links) = 1 /\ (Len(t(1)) <= 1 \/ GlyphsOnly(t(1)))
        \/ Len(links) > 1 /\ \A n \in DOMAIN links :
               Len(t(n)) <= 1 \/ GlyphsOnly(t(n)) \/ MatchesSee(t(n))

\* C26: when the link step gives no name the item text up to its first
\* line break, trimmed, is the name if and only if it is longer than one
\* character and not made of glyphs and white space only.
C26_FallbackToItemText ==
    (ppc = "returned" /\ IsItemPage /\ NoNameFromLinks) =>
        parsed = IF Len(ItemText) > 1 /\ ~GlyphsOnly(ItemText)
                 THEN <<ItemText>> ELSE <<>>

----------------------------------------------------------------------------
(* C27 *)

\* the names that the list at block l gives
NamesOfList(blocks, l) == Range(NamesOfItems(blocks[l].items))

\* the lists that carry a label, or directly follow a labelled element that
\* is no list
LabelledLists(blocks) ==
    { l \in DOMAIN blocks :
        /\ blocks[l].tag = "ul"
        /\ \/ blocks[l].label
           \/ l > 1 /\ blocks[l - 1].tag \in {"p", "b"} /\ blocks[l - 1].label }

InOpenSection(blocks, l) ==
    \E h \in 1..(l - 1) :
        /\ blocks[h].tag = "h2" /\ blocks[h].appearing
        /\ \A g \in (h + 1)..l : blocks[g].tag # "h2"

----------------------------------------------------------------------------
(* C28 *)

NamesIn(entry) == { v.names[1] : v \in Range(entry.villains) }

NamesOfRecord(r) ==
    { Normalized(Issues[r].antagonists[p]) : p \in DOMAIN Issues[r].antagonists }
        \ {<<>>}

\* C28 as stated: the villains of a timeline entry are the normalized names
\* of the antagonist list of the same input record, also when two records
\* have the same issue number.
C28_EntryListsOwnRecordOnly ==
    Returned =>
        \A k \in DOMAIN Timeline : NamesIn(Timeline[k]) = NamesOfRecord(k)

\* C28 amended: the villains of a timeline entry are the normalized names
\* of the antagonist lists of all the input records that have the entry's
\* issue number; when no other record has that number these are the names
\* of the entry's own record.
C28_EntryListsRecordsOfItsIssue ==
    Returned =>
        \A k \in DOMAIN Timeline :
            /\ NamesIn(Timeline[k]) =
                   UNION { NamesOfRecord(r) :
                             r \in { x \in DOMAIN Issues :
                                       Issues[x].issueNumber = Issues[k].issueNumber } }
            /\ ~SharesIssueNumber(k) => NamesIn(Timeline[k]) = NamesOfRecord(k)

\* two records with the same issue number and different villains: the first
\* entry also lists the villain of the second record
C28_Witness ==
    /\ Returned
    /\ Len(Issues) = 2
    /\ Issues[1].issueNumber = Issues[2].issueNumber
    /\ NamesOfRecord(1) = {<<"O", "x">>}
    /\ NamesOfRecord(2) = {<<"o", "x">>}
    /\ NamesIn(Timeline[1]) = {<<"O", "x">>, <<"o", "x">>}

----------------------------------------------------------------------------
(* C29, C30 *)

\* C29: normalizing a normalized name changes nothing.
C29_NormalizeIdempotent ==
    fn = "normalizeVillainName" => normalizeVillainName(ret) = ret

\* C30: a normalized name that is not empty does not end with one of the
\* characters , ; : . also when the marks of the raw name have spaces
\* between them.
C30_NoTrailingPunctuation ==
    (fn = "normalizeVillainName" /\ ret # <<>>) => ~IsTrailingPunct(ret[Len(ret)])

====
